---- MODULE Spec2Model ----
(***************************************************************************)
(* Model of the MakerDAO job monitor: MonitoringService (monitor.ts), the  *)
(* parts of EthereumService and SQLiteDatabase it calls, and the alert     *)
(* sink.  A tick is one execution of monitoringLoop; its position (pc) is  *)
(* the await it is suspended at, and one action is the synchronous code    *)
(* between two awaits on remote calls.                                     *)
(***************************************************************************)
EXTENDS Integers, Sequences, FiniteSets, TLC

\* ------------------------------------------------------------------ bounds
\* Highest block number the chain reaches.
MaxHead == 4
\* Number of ticks a run starts while another tick is still running.
MaxOverlaps == 1
\* Number of rate-limit rejections the RPC provider issues in a run.
MaxRateLimits == 3
\* Number of other injected failures (head read, store write) in a run.
MaxFaults == 1
\* config.alertThresholdBlocks, scaled down (default 1000).
alertThresholdBlocks == 2
\* config.maxBlocksPerQuery, scaled down (default 100).
maxBlocksPerQuery == 2

\* ------------------------------------------------------- program constants
\* processBlockWithRetry(blockNumber, retries = 3)
retries == 3
\* An optional JobInfo field that is absent (undefined).
Undefined == -1
\* A NULL column of the jobs table.
Null == -2
\* The chain head when the model starts.
GenesisHead == 1

\* The job addresses the Sequencer lists (getAllJobAddresses): one job, or two.
SequencerJobs == <<"j1">>
TwoJobs == <<"j1", "j2">>
Addresses == {TwoJobs[i] : i \in 1..Len(TwoJobs)}
Ticks == 1..(MaxOverlaps + 1)

VARIABLES
    initialized,        \* initialize() has completed
    isRunning,          \* MonitoringService.isRunning
    monitoringInterval, \* the setInterval timer is set
    dbOpen,             \* the sql.js database has not been closed
    lastProcessedBlock, \* MonitoringService.lastProcessedBlock (the cursor)
    jobAddresses,       \* MonitoringService.jobAddresses
    head,               \* the chain's latest block number
    jobs,               \* the jobs table: address -> row
    tick,               \* the executions of monitoringLoop, by slot
    rateLimits,         \* rate-limit rejections issued so far
    faults,             \* other failures injected so far
    overlaps,           \* ticks started so far while another tick was running
    alerts,             \* history: the calls of discord.sendAlert, in order
    run,                \* history: per address, the trailing run of workable observations written
    runBlocks,          \* history: per address, the blocks of that trailing run
    reached,            \* history: <<address, block>> where the counter became the threshold
    lastTick,           \* history: summary of the tick that completed last
    sequencer,          \* the job addresses the Sequencer contract lists
    startingBlock,      \* history: the head that the last initialize() read (0 before)
    timers,             \* the number of interval timers that are active
    forceCheckError,    \* history: the last forceCheck() call threw
    written,            \* history: per address upserted directly and not deleted since, the last JobInfo
    probe,              \* history: the last direct getJob / getAllJobs call and what it returned
    env,                \* process.env: the three numeric settings, as strings
    config,             \* the module-level config of utils/config, once loaded
    webhookDown         \* the Discord webhook fails every delivery (no connection, or an error status)

\* The variables of direct calls of the SQLiteDatabase methods.
storeVars == <<written, probe>>

\* The variables of loading the configuration, and the state of the webhook.
configVars == <<env, config, webhookDown>>

vars == <<initialized, isRunning, monitoringInterval, dbOpen, lastProcessedBlock,
          jobAddresses, head, jobs, tick, rateLimits, faults, overlaps, alerts,
          run, runBlocks, reached, lastTick, sequencer, startingBlock, timers, forceCheckError,
          storeVars, configVars>>

\* ----------------------------------------------------------------- helpers
Min(a, b) == IF a <= b THEN a ELSE b

\* JavaScript truthiness of an optional number: undefined and 0 are falsy.
Truthy(x) == x # Undefined /\ x # 0

\* `x || null` in upsertJob's params.
OrNull(x) == IF Truthy(x) THEN x ELSE Null

\* `x || undefined` in getJob.
OrUndefined(x) == IF x # Null /\ x # 0 THEN x ELSE Undefined

\* An optional name that is absent (undefined), and a NULL name column.
NoName == "<undefined>"
NullName == "<null>"

\* `jobInfo.name || null` in upsertJob's params: the empty string is falsy.
NameOrNull(name) == IF name # NoName /\ name # "" THEN name ELSE NullName

\* `result.name || undefined` in getJob.
NameOrUndefined(name) == IF name # NullName /\ name # "" THEN name ELSE NoName

\* getJobName: the known job's name, or a label made of the address.
JobName(address) == IF address = "j1" THEN "Job j1..." ELSE "Job j2..."

\* A default JobInfo that is already workable with counter 1.
NewJobInfoWorkable(address, block) ==
    [address |-> address,
     name |-> JobName(address),
     lastWorkedBlock |-> Undefined,
     consecutiveWorkableBlocks |-> 1,
     isCurrentlyWorkable |-> TRUE,
     lastCheckedBlock |-> block,
     alertsSent |-> 0,
     lastAlertBlock |-> Undefined]

\* The JobInfo that initializeJobTracking and processJobStatus create for an
\* address with no row.
NewJobInfo(address, block) ==
    [address |-> address,
     name |-> JobName(address),
     lastWorkedBlock |-> Undefined,
     consecutiveWorkableBlocks |-> 0,
     isCurrentlyWorkable |-> FALSE,
     lastCheckedBlock |-> block,
     alertsSent |-> 0,
     lastAlertBlock |-> Undefined]

\* upsertJob's params: the row written for a JobInfo.
ToRow(jobInfo) ==
    [address |-> jobInfo.address,
     name |-> NameOrNull(jobInfo.name),
     last_worked_block |-> OrNull(jobInfo.lastWorkedBlock),
     consecutive_workable_blocks |-> jobInfo.consecutiveWorkableBlocks,
     is_currently_workable |-> IF jobInfo.isCurrentlyWorkable THEN 1 ELSE 0,
     last_checked_block |-> jobInfo.lastCheckedBlock,
     alerts_sent |-> jobInfo.alertsSent,
     last_alert_block |-> OrNull(jobInfo.lastAlertBlock)]

\* getJob's conversion of a row to a JobInfo.
FromRow(row) ==
    [address |-> row.address,
     name |-> NameOrUndefined(row.name),
     lastWorkedBlock |-> OrUndefined(row.last_worked_block),
     consecutiveWorkableBlocks |-> row.consecutive_workable_blocks,
     isCurrentlyWorkable |-> row.is_currently_workable # 0,
     lastCheckedBlock |-> row.last_checked_block,
     alertsSent |-> row.alerts_sent,
     lastAlertBlock |-> OrUndefined(row.last_alert_block)]

\* INSERT OR IGNORE in place of INSERT OR REPLACE: a row already stored for
\* the address is kept.
UpsertKeepsOld(table, jobInfo) ==
    [a \in DOMAIN table \cup {jobInfo.address} |->
        IF a \in DOMAIN table THEN table[a] ELSE ToRow(jobInfo)]

\* INSERT OR REPLACE INTO jobs: the table after upsertJob(jobInfo).
Upsert(table, jobInfo) ==
    [a \in DOMAIN table \cup {jobInfo.address} |->
        IF a = jobInfo.address THEN ToRow(jobInfo) ELSE table[a]]

\* SELECT * FROM jobs WHERE address = ?: whether getJob finds a row.
HasJob(table, address) == address \in DOMAIN table

\* getJob(address) when a row exists.
GetJob(table, address) == FromRow(table[address])


\* DELETE FROM jobs WHERE address = ?: the table after deleteJob(address).
Delete(table, address) == [a \in DOMAIN table \ {address} |-> table[a]]

\* SELECT * FROM jobs ORDER BY address: what getAllJobs returns.
GetAllJobs(table) ==
    LET present == SelectSeq(TwoJobs, LAMBDA a : a \in DOMAIN table)
    IN  [i \in 1..Len(present) |-> FromRow(table[present[i]])]

\* No direct call of getJob or getAllJobs yet.
NoProbe == [op |-> "none", address |-> "", result |-> <<>>]

\* The JobInfo values passed to direct upsertJob calls.
JobInfos ==
    [address : Addresses,
     name : {NoName, ""},
     lastWorkedBlock : {Undefined, 0, 3},
     consecutiveWorkableBlocks : {0},
     isCurrentlyWorkable : BOOLEAN,
     lastCheckedBlock : {3},
     alertsSent : {0},
     lastAlertBlock : {Undefined, 3}]

\* ------------------------------------------------------- processJobStatus
\* The messages of the errors the provider answers a workable() call with.
ErrorMessages ==
    {"429 Too Many Requests", "rate limit exceeded",
     "code -32005: limit exceeded", "execution reverted"}

\* message.toLowerCase().includes(signature), for those messages.
Includes(message, signature) ==
    signature \in
        CASE message = "429 Too Many Requests" -> {"429", "too many requests"}
          [] message = "rate limit exceeded" -> {"rate limit"}
          [] message = "code -32005: limit exceeded" -> {"-32005"}
          [] OTHER -> {}

\* The test of checkJobWorkable's catch and of checkMultipleJobsWorkable's
\* filter: the error is a rate-limiting error.
IsRateLimitingError(message) ==
    \/ Includes(message, "too many requests")
    \/ Includes(message, "rate limit")
    \/ Includes(message, "429")

\* A classification that retries no error.
IsRateLimitedNever(errorMsg) == FALSE

\* A classification that retries every error.
IsRateLimitedAny(errorMsg) == TRUE

\* isRateLimited in processBlockWithRetry's catch.
IsRateLimited(errorMsg) ==
    \/ Includes(errorMsg, "rate limit")
    \/ Includes(errorMsg, "too many requests")
    \/ Includes(errorMsg, "429")
    \/ Includes(errorMsg, "-32005")

\* A JobStatus without the error field.
NoError == ""

\* What jobContract.workable(overrides) does: it returns true or false, or
\* throws an error with one of the messages.
WorkableCalls ==
    {[throws |-> FALSE, workable |-> w, message |-> NoError] : w \in BOOLEAN}
    \cup {[throws |-> TRUE, workable |-> FALSE, message |-> m] :
                m \in ErrorMessages}

\* checkJobWorkable(jobAddress, blockNumber), as Promise.allSettled sees it:
\* fulfilled with the JobStatus (an error result for an error that is not a
\* rate-limiting error), or rejected with the rate-limiting error.
CheckJobWorkable(jobAddress, call) ==
    IF ~call.throws
    THEN [status |-> "fulfilled", reason |-> NoError,
          value |-> [address |-> jobAddress, workable |-> call.workable,
                     error |-> NoError]]
    ELSE IF IsRateLimitingError(call.message)
    THEN [status |-> "rejected", reason |-> call.message,
          value |-> [address |-> jobAddress, workable |-> FALSE,
                     error |-> NoError]]
    ELSE [status |-> "fulfilled", reason |-> NoError,
          value |-> [address |-> jobAddress, workable |-> FALSE,
                     error |-> call.message]]

\* A filter that finds no rate-limiting error.
RateLimitingErrorsNoneFound(results) == {}

\* rateLimitingErrors in checkMultipleJobsWorkable: the rejected results whose
\* reason is a rate-limiting error.
RateLimitingErrors(results) ==
    {i \in DOMAIN results :
        results[i].status = "rejected" /\ IsRateLimitingError(results[i].reason)}

\* The JobStatus list checkMultipleJobsWorkable returns: the value of a
\* fulfilled result, an error result for a rejected one.
JobStatuses(results) ==
    [i \in DOMAIN results |->
        IF results[i].status = "fulfilled" THEN results[i].value
        ELSE [results[i].value EXCEPT !.error = results[i].reason]]

\* const isWorkable = jobStatus.workable && !jobStatus.error
IsWorkable(jobStatus) == jobStatus.workable /\ jobStatus.error = NoError

\* A restart of the run that counts from 0.
NextCounterFromZero(wasWorkable, counter) == IF wasWorkable THEN counter + 1 ELSE 0

\* consecutiveWorkableBlocks after a workable observation.
NextCounter(wasWorkable, counter) == IF wasWorkable THEN counter + 1 ELSE 1

\* A JavaScript number: an integer, or NaN.
Num(n) == [nan |-> FALSE, n |-> n]
NaN == [nan |-> TRUE, n |-> 0]

\* x <= k and x > k in JavaScript: every comparison with NaN is false.
Lte(x, k) == ~x.nan /\ x.n <= k
Gt(x, k) == ~x.nan /\ x.n > k

\* n >= x for a number x of the configuration.
Gte(n, x) == ~x.nan /\ n >= x.n

\* A threshold test that is off by one.
ThresholdReachedEarly(counter) == counter + 1 >= alertThresholdBlocks

\* jobInfo.consecutiveWorkableBlocks >= config.alertThresholdBlocks
ThresholdReached(counter) == Gte(counter, config.alertThresholdBlocks)

\* blocksSinceLastAlert >= config.alertThresholdBlocks, where
\* blocksSinceLastAlert is Infinity when lastAlertBlock is falsy.
NotAlertedRecently(jobInfo, blockNumber) ==
    IF Truthy(jobInfo.lastAlertBlock)
    THEN Gte(blockNumber - jobInfo.lastAlertBlock, config.alertThresholdBlocks)
    ELSE ~config.alertThresholdBlocks.nan

\* An update that leaves isCurrentlyWorkable as it was read.
ObservedKeepsFlag(jobInfo, isWorkable, blockNumber) ==
    [jobInfo EXCEPT
        !.lastCheckedBlock = blockNumber,
        !.consecutiveWorkableBlocks =
            IF isWorkable THEN NextCounter(jobInfo.isCurrentlyWorkable, @) ELSE @]

\* The JobInfo after "Update job status" and the counter update of the
\* workable branch; the not-workable branch resets the counter later.
Observed(jobInfo, isWorkable, blockNumber) ==
    [jobInfo EXCEPT
        !.isCurrentlyWorkable = isWorkable,
        !.lastCheckedBlock = blockNumber,
        !.consecutiveWorkableBlocks =
            IF isWorkable THEN NextCounter(jobInfo.isCurrentlyWorkable, @) ELSE @]

\* discord.sendAlert(alertData): true if the webhook accepted the message;
\* a failed fetch or an error status is caught and gives false.
DiscordSendAlert(down) == ~down

\* jobInfo.alertsSent++; jobInfo.lastAlertBlock = blockNumber
Alerted(jobInfo, blockNumber) ==
    [jobInfo EXCEPT !.alertsSent = @ + 1, !.lastAlertBlock = blockNumber]

\* A not-workable branch that leaves the counter as it is.
ResetKeepsCounter(jobInfo, wasWorked, blockNumber) ==
    [jobInfo EXCEPT !.lastWorkedBlock = IF wasWorked THEN blockNumber ELSE @]

\* A not-workable branch that sets lastWorkedBlock whatever the query returned.
ResetAlwaysWorked(jobInfo, wasWorked, blockNumber) ==
    [jobInfo EXCEPT
        !.lastWorkedBlock = blockNumber,
        !.consecutiveWorkableBlocks = 0]

\* The not-workable branch after checkWorkTransactionInBlock: lastWorkedBlock
\* if the work was confirmed, and the counter reset.
Reset(jobInfo, wasWorked, blockNumber) ==
    [jobInfo EXCEPT
        !.lastWorkedBlock = IF wasWorked THEN blockNumber ELSE @,
        !.consecutiveWorkableBlocks = 0]

\* ------------------------------------------------------------ history only
\* Length of the trailing run of workable observations once one more
\* observation follows a sequence whose trailing run has length n.
TrailingRun(n, workable) == IF workable THEN n + 1 ELSE 0

\* The blocks of that trailing run, given the blocks of the run before.
TrailingBlocks(blocks, workable, block) ==
    IF workable THEN blocks \cup {block} ELSE {}

\* ----------------------------------------------------------- configuration
\* The values an environment variable takes here; "" is unset (or empty).
EnvValues == {"", "abc", "-1", "0", "1", "1000", "1001"}

\* parseInt of the strings used here.
ParseInt(str) ==
    CASE str = "-1" -> Num(-1)
      [] str = "0" -> Num(0)
      [] str = "1" -> Num(1)
      [] str = "30" -> Num(30)
      [] str = "100" -> Num(100)
      [] str = "1000" -> Num(1000)
      [] str = "1001" -> Num(1001)
      [] OTHER -> NaN

\* `process.env.X || default`
OrDefault(value, default) == IF value = "" THEN default ELSE value

\* loadConfig(): the three numeric settings.
LoadConfig(e) ==
    [alertThresholdBlocks |-> ParseInt(OrDefault(e.ALERT_THRESHOLD_BLOCKS, "1000")),
     checkIntervalSeconds |-> ParseInt(OrDefault(e.CHECK_INTERVAL_SECONDS, "30")),
     maxBlocksPerQuery |-> ParseInt(OrDefault(e.MAX_BLOCKS_PER_QUERY, "100"))]

\* config.maxBlocksPerQuery <= 0 || config.maxBlocksPerQuery > 1000
MaxBlocksRejected(c) ==
    Lte(c.maxBlocksPerQuery, 0) \/ Gt(c.maxBlocksPerQuery, 1000)

\* validateConfig(config) returns without throwing ("Validate numeric values").
ValidateConfig(c) ==
    /\ ~Lte(c.alertThresholdBlocks, 0)
    /\ ~Lte(c.checkIntervalSeconds, 0)
    /\ ~MaxBlocksRejected(c)

\* The environment in which the numeric settings are unset.
DefaultEnv ==
    [ALERT_THRESHOLD_BLOCKS |-> "", CHECK_INTERVAL_SECONDS |-> "",
     MAX_BLOCKS_PER_QUERY |-> ""]

\* utils/config before the module is loaded.
NoConfig ==
    [status |-> "unloaded", alertThresholdBlocks |-> NaN,
     checkIntervalSeconds |-> NaN, maxBlocksPerQuery |-> NaN]

\* ------------------------------------------------------------------- ticks
NoInfo == NewJobInfo("", 0)

IdleTick ==
    [pc |-> "idle", currentBlock |-> 0, startBlock |-> 0, endBlock |-> 0,
     successfullyProcessed |-> 0, blockNum |-> 0, attempt |-> 0,
     jobStatuses |-> <<>>, jobIdx |-> 0, jobInfo |-> NoInfo,
     units |-> 0, skipped |-> 0, delay |-> 0]

NoTick ==
    [ran |-> FALSE, head |-> 0, start |-> 0, after |-> 0, units |-> 0,
     skipped |-> 0]

InFlight == {t \in Ticks : tick[t].pc # "idle"}

\* A window without the cap: every block up to the head.
BlocksToProcessUncapped(currentBlock, cursor) == currentBlock - cursor

\* A window that is always the cap, whatever the gap.
BlocksToProcessFixed(currentBlock, cursor) == maxBlocksPerQuery

\* Math.min(currentBlock.number - this.lastProcessedBlock, config.maxBlocksPerQuery)
\* for a cap that is a number (it is NaN when the cap is NaN).
BlocksToProcess(currentBlock, cursor) ==
    Min(currentBlock - cursor, config.maxBlocksPerQuery.n)

\* The state after `new MonitoringService()`, with the jobs the Sequencer lists.
ServiceInit(listed) ==
    /\ initialized = FALSE
    /\ isRunning = FALSE
    /\ monitoringInterval = FALSE
    /\ dbOpen = FALSE
    /\ lastProcessedBlock = 0
    /\ jobAddresses = <<>>
    /\ head = GenesisHead
    /\ jobs = <<>>
    /\ tick = [t \in Ticks |-> IdleTick]
    /\ rateLimits = 0
    /\ faults = 0
    /\ overlaps = 0
    /\ alerts = <<>>
    /\ run = [a \in Addresses |-> 0]
    /\ runBlocks = [a \in Addresses |-> {}]
    /\ reached = {}
    /\ lastTick = NoTick
    /\ sequencer = listed
    /\ startingBlock = 0
    /\ timers = 0
    /\ forceCheckError = FALSE
    /\ written = <<>>
    /\ probe = NoProbe

\* The configuration loaded from the scaled-down settings.
LoadedConfig ==
    [status |-> "loaded",
     alertThresholdBlocks |-> Num(alertThresholdBlocks),
     checkIntervalSeconds |-> Num(30),
     maxBlocksPerQuery |-> Num(maxBlocksPerQuery)]

\* That state, with that configuration and a webhook that delivers.
InitWith(listed) ==
    /\ ServiceInit(listed)
    /\ env = DefaultEnv
    /\ config = LoadedConfig
    /\ webhookDown = FALSE

\* The same with a webhook that delivers, or one that fails every delivery.
InitSink ==
    /\ ServiceInit(SequencerJobs)
    /\ env = DefaultEnv
    /\ config = LoadedConfig
    /\ webhookDown \in BOOLEAN

Init == InitWith(SequencerJobs)

\* The process before utils/config is loaded, in any environment.
InitConfig ==
    /\ ServiceInit(SequencerJobs)
    /\ env \in [ALERT_THRESHOLD_BLOCKS : EnvValues,
                 CHECK_INTERVAL_SECONDS : EnvValues,
                 MAX_BLOCKS_PER_QUERY : EnvValues]
    /\ config = NoConfig
    /\ webhookDown = FALSE

\* The same with two jobs listed.
InitTwo == InitWith(TwoJobs)

\* The chain grows by one block (the blocks before the first initialize() are
\* never read: the jobs table is empty until then).
NewBlock ==
    /\ initialized \/ DOMAIN jobs # {}
    /\ head < MaxHead
    /\ head' = head + 1
    /\ UNCHANGED <<overlaps, initialized, isRunning, monitoringInterval, dbOpen,
                   lastProcessedBlock, jobAddresses, jobs, tick, rateLimits,
                   faults, alerts, run, runBlocks, reached, lastTick>>
    /\ UNCHANGED <<sequencer, startingBlock, timers, forceCheckError, storeVars, configVars>>

\* initializeJobTracking: a row for every address that has none.
RECURSIVE TrackJobs(_, _, _)
TrackJobs(table, addresses, cursor) ==
    IF addresses = <<>> THEN table
    ELSE TrackJobs(
            IF HasJob(table, Head(addresses)) THEN table
            ELSE Upsert(table, NewJobInfo(Head(addresses), cursor)),
            Tail(addresses), cursor)

\* An initialize() that leaves the cursor at its constructor value.
InitializeKeepsCursor ==
    /\ ~initialized
    /\ config.status = "loaded"
    /\ initialized' = TRUE
    /\ dbOpen' = TRUE
    /\ jobAddresses' = sequencer
    /\ jobs' = TrackJobs(jobs, sequencer, lastProcessedBlock)
    /\ startingBlock' = head
    /\ UNCHANGED <<isRunning, monitoringInterval, head, tick, rateLimits, faults,
                   overlaps, alerts, run, runBlocks, reached, lastTick>>
    /\ UNCHANGED <<lastProcessedBlock, sequencer, timers, forceCheckError,
                   storeVars, configVars>>

\* initialize(): opens the database, loads the job addresses, creates the
\* missing rows and sets the cursor to the chain head.
Initialize ==
    /\ ~initialized
    /\ config.status = "loaded"
    /\ initialized' = TRUE
    /\ dbOpen' = TRUE
    /\ jobAddresses' = sequencer
    /\ jobs' = TrackJobs(jobs, sequencer, lastProcessedBlock)
    /\ lastProcessedBlock' = head
    /\ startingBlock' = head
    /\ UNCHANGED <<isRunning, monitoringInterval, head, tick, rateLimits, faults,
                   overlaps, alerts, run, runBlocks, reached, lastTick>>
    /\ UNCHANGED <<sequencer, timers, forceCheckError, storeVars, configVars>>

\* A new execution of monitoringLoop, suspended at getLatestBlock().
Launch(t) ==
    /\ tick[t].pc = "idle"
    /\ \A u \in Ticks : u < t => tick[u].pc # "idle"
    /\ tick' = [tick EXCEPT ![t] = [IdleTick EXCEPT !.pc = "getLatest"]]
    /\ IF InFlight = {} THEN UNCHANGED overlaps
       ELSE overlaps < MaxOverlaps /\ overlaps' = overlaps + 1

\* A start() without the test of isRunning: a second call creates a second
\* timer, whose handle replaces the first, and runs a tick.
StartUnguarded ==
    /\ initialized
    /\ isRunning' = TRUE
    /\ monitoringInterval' = TRUE
    /\ timers < 2
    /\ timers' = timers + 1
    /\ \E t \in Ticks : Launch(t)
    /\ UNCHANGED <<initialized, dbOpen, lastProcessedBlock, jobAddresses, head,
                   jobs, rateLimits, faults, alerts, run, runBlocks, reached, lastTick>>
    /\ UNCHANGED <<sequencer, startingBlock, forceCheckError, storeVars, configVars>>

\* start(): sets isRunning and the interval timer, and runs the initial tick.
\* Application.start calls it after initialize().
Start ==
    /\ initialized
    /\ ~isRunning
    /\ isRunning' = TRUE
    /\ monitoringInterval' = TRUE
    /\ timers' = timers + 1
    /\ \E t \in Ticks : Launch(t)
    /\ UNCHANGED <<initialized, dbOpen, lastProcessedBlock, jobAddresses, head,
                   jobs, rateLimits, faults, alerts, run, runBlocks, reached, lastTick>>
    /\ UNCHANGED <<sequencer, startingBlock, forceCheckError, storeVars, configVars>>

\* The setInterval callback: runs monitoringLoop, whatever else is running.
TimerFire ==
    /\ timers > 0
    /\ \E t \in Ticks : Launch(t)
    /\ UNCHANGED <<initialized, isRunning, monitoringInterval, dbOpen,
                   lastProcessedBlock, jobAddresses, head, jobs, rateLimits,
                   faults, alerts, run, runBlocks, reached, lastTick>>
    /\ UNCHANGED <<sequencer, startingBlock, timers, forceCheckError, storeVars, configVars>>

\* forceCheck(): throws unless isRunning, else runs monitoringLoop.
ForceCheck ==
    /\ \/ /\ isRunning
          /\ \E t \in Ticks : Launch(t)
          /\ forceCheckError' = FALSE
       \/ /\ ~isRunning
          /\ forceCheckError' = TRUE
          /\ UNCHANGED <<tick, overlaps>>
    /\ UNCHANGED <<initialized, isRunning, monitoringInterval, dbOpen,
                   lastProcessedBlock, jobAddresses, head, jobs, rateLimits,
                   faults, alerts, run, runBlocks, reached, lastTick>>
    /\ UNCHANGED <<sequencer, startingBlock, timers, storeVars, configVars>>

\* A stop() that leaves the interval timer set.
StopKeepsTimer ==
    /\ isRunning
    /\ isRunning' = FALSE
    /\ dbOpen' = FALSE
    /\ UNCHANGED <<overlaps, initialized, monitoringInterval, lastProcessedBlock,
                   jobAddresses, head, jobs, tick, rateLimits, faults, alerts,
                   run, runBlocks, reached, lastTick>>
    /\ UNCHANGED <<sequencer, startingBlock, timers, forceCheckError, storeVars, configVars>>

\* stop(): clears the timer, disconnects and closes the database.
Stop ==
    /\ isRunning
    /\ isRunning' = FALSE
    /\ monitoringInterval' = FALSE
    /\ timers' = IF monitoringInterval THEN timers - 1 ELSE timers
    /\ dbOpen' = FALSE
    /\ UNCHANGED <<overlaps, initialized, lastProcessedBlock, jobAddresses, head, jobs,
                   tick, rateLimits, faults, alerts, run, runBlocks, reached, lastTick>>
    /\ UNCHANGED <<sequencer, startingBlock, forceCheckError, storeVars, configVars>>

\* process.exit (after a shutdown signal or an uncaught exception) or a crash:
\* the service object, its timer and its suspended ticks are gone; the
\* database file, saved after every write, stays.
ProcessExit ==
    /\ initialized
    /\ initialized' = FALSE
    /\ isRunning' = FALSE
    /\ monitoringInterval' = FALSE
    /\ dbOpen' = FALSE
    /\ lastProcessedBlock' = 0
    /\ jobAddresses' = <<>>
    /\ tick' = [t \in Ticks |-> IdleTick]
    /\ UNCHANGED <<head, jobs, rateLimits, faults, overlaps, alerts, run,
                   runBlocks, reached, lastTick>>
    /\ UNCHANGED <<sequencer, startingBlock, forceCheckError, storeVars, configVars>>
    /\ timers' = 0

\* Loading utils/config: `export const config = loadConfig();
\* validateConfig(config);` The import throws if validateConfig does.
LoadConfigModule ==
    /\ config.status = "unloaded"
    /\ LET loaded == LoadConfig(env)
       IN  config' = [status |-> IF ValidateConfig(loaded) THEN "loaded"
                                 ELSE "rejected",
                      alertThresholdBlocks |-> loaded.alertThresholdBlocks,
                      checkIntervalSeconds |-> loaded.checkIntervalSeconds,
                      maxBlocksPerQuery |-> loaded.maxBlocksPerQuery]
    /\ UNCHANGED <<initialized, isRunning, monitoringInterval, dbOpen,
                   lastProcessedBlock, jobAddresses, head, jobs, tick,
                   rateLimits, faults, overlaps, alerts, run, runBlocks,
                   reached, lastTick, sequencer, startingBlock, timers, forceCheckError, storeVars, env,
                   webhookDown>>

\* --------------------------------------- direct calls of SQLiteDatabase
\* What the direct calls of the database methods leave alone.
serviceVars ==
    <<initialized, isRunning, monitoringInterval, lastProcessedBlock,
      jobAddresses, head, tick, rateLimits, faults, overlaps, alerts, run,
      runBlocks, reached, lastTick, sequencer, startingBlock, timers, forceCheckError>>

\* database.initialize(): opens the database.
OpenDatabase ==
    /\ ~dbOpen
    /\ ~initialized
    /\ dbOpen' = TRUE
    /\ UNCHANGED <<jobs, serviceVars, storeVars, configVars>>

\* upsertJob(jobInfo)
CallUpsertJob ==
    /\ dbOpen
    /\ \E jobInfo \in JobInfos :
        /\ jobs' = Upsert(jobs, jobInfo)
        /\ written' =
            [a \in DOMAIN written \cup {jobInfo.address} |->
                IF a = jobInfo.address
                THEN [jobInfo |-> jobInfo,
                      upserts |-> IF a \in DOMAIN written
                                  THEN Min(written[a].upserts + 1, 2) ELSE 1]
                ELSE written[a]]
    /\ probe' = NoProbe
    /\ UNCHANGED <<dbOpen, serviceVars, configVars>>

\* deleteJob(address)
CallDeleteJob ==
    /\ dbOpen
    /\ \E address \in Addresses :
        /\ jobs' = Delete(jobs, address)
        /\ written' = [a \in DOMAIN written \ {address} |-> written[a]]
    /\ probe' = NoProbe
    /\ UNCHANGED <<dbOpen, serviceVars, configVars>>

\* getJob(address): the JobInfo of the row, or null (the empty result).
CallGetJob ==
    /\ dbOpen
    /\ \E address \in Addresses :
        probe' = [op |-> "getJob", address |-> address,
                  result |-> IF HasJob(jobs, address)
                             THEN <<GetJob(jobs, address)>> ELSE <<>>]
    /\ UNCHANGED <<dbOpen, jobs, written, serviceVars, configVars>>

\* getAllJobs()
CallGetAllJobs ==
    /\ dbOpen
    /\ probe' = [op |-> "getAllJobs", address |-> "",
                 result |-> GetAllJobs(jobs)]
    /\ UNCHANGED <<dbOpen, jobs, written, serviceVars, configVars>>

\* ------------------------------------------------------ monitoringLoop steps
\* A tick is suspended only at an await on a remote call (the RPC provider, the
\* webhook, the backoff timer).  The database calls are synchronous sql.js
\* calls inside async functions: their awaits resume in the same turn of the
\* event loop, so no other tick runs between them.

\* The part of the state that processJobStatus reads and writes.
Store ==
    [jobs |-> jobs, run |-> run, runBlocks |-> runBlocks, reached |-> reached,
     alerts |-> alerts, faults |-> faults]

\* await this.database.upsertJob(jobInfo) at the end of processJobStatus: the
\* stores it can leave.  The row is written, or the write throws (the database
\* is closed, or the statement fails) and processJobStatus's catch logs it.
SaveJob(st, jobInfo, isWorkable, blockNumber) ==
    IF ~dbOpen THEN {st}
    ELSE {[st EXCEPT
            !.jobs = Upsert(@, jobInfo),
            !.run[jobInfo.address] = TrailingRun(@, isWorkable),
            !.runBlocks[jobInfo.address] =
                TrailingBlocks(@, isWorkable, blockNumber)]}
         \cup (IF st.faults < MaxFaults
               THEN {[st EXCEPT !.faults = @ + 1]}
               ELSE {})

\* processJobStatus for jobStatuses[tk.jobIdx], up to its first await on a
\* remote call or to its return: the outcomes [tk, st], with tk.pc "alert"
\* (suspended in sendAlert), "work" (suspended in checkWorkTransactionInBlock)
\* or "job" (returned).  getJob throws on a closed database and the catch
\* logs it.
ProcessJobStatus(tk, st) ==
    LET jobStatus == tk.jobStatuses[tk.jobIdx]
        blockNumber == tk.blockNum
        address == jobStatus.address
        found == IF HasJob(st.jobs, address) THEN GetJob(st.jobs, address)
                 ELSE NewJobInfo(address, blockNumber)
        wasWorkable == found.isCurrentlyWorkable
        isWorkable == IsWorkable(jobStatus)
        jobInfo == Observed(found, isWorkable, blockNumber)
        counter == jobInfo.consecutiveWorkableBlocks
        seen == IF isWorkable /\ counter = alertThresholdBlocks
                THEN [st EXCEPT !.reached = @ \cup {<<address, blockNumber>>}]
                ELSE st
    IN  IF ~dbOpen THEN {[tk |-> tk, st |-> st]}
        ELSE IF isWorkable
        THEN IF ThresholdReached(counter) /\ NotAlertedRecently(jobInfo, blockNumber)
             THEN {[tk |-> [tk EXCEPT !.pc = "alert", !.jobInfo = jobInfo],
                    st |-> [seen EXCEPT !.alerts = Append(@,
                                [address |-> address,
                                 block |-> blockNumber,
                                 count |-> counter,
                                 delivered |-> DiscordSendAlert(webhookDown),
                                 runUnits |-> Cardinality(TrailingBlocks(
                                    st.runBlocks[address], TRUE, blockNumber))])]]}
             ELSE {[tk |-> tk, st |-> s] :
                        s \in SaveJob(seen, jobInfo, TRUE, blockNumber)}
        ELSE IF wasWorkable
             THEN {[tk |-> [tk EXCEPT !.pc = "work", !.jobInfo = jobInfo],
                    st |-> st]}
             ELSE {[tk |-> tk, st |-> s] :
                        s \in SaveJob(st, Reset(jobInfo, FALSE, blockNumber),
                                      FALSE, blockNumber)}

\* A loop that stops at the first job whose write failed.
RECURSIVE ProcessBlockAborting(_, _)
ProcessBlockAborting(tk, st) ==
    IF tk.jobIdx > Len(tk.jobStatuses)
    THEN {[tk |-> [tk EXCEPT !.pc = "done"], st |-> st]}
    ELSE UNION {IF o.tk.pc # "job" THEN {o}
                ELSE IF o.st.faults = st.faults
                THEN ProcessBlockAborting([o.tk EXCEPT !.jobIdx = @ + 1], o.st)
                ELSE {[tk |-> [o.tk EXCEPT !.pc = "done"], st |-> o.st]} :
                    o \in ProcessJobStatus([tk EXCEPT !.pc = "job",
                                                      !.jobInfo = NoInfo], st)}

\* A loop that stops after a job whose result carries an error.
RECURSIVE ProcessBlockStopsAtError(_, _)
ProcessBlockStopsAtError(tk, st) ==
    IF \/ tk.jobIdx > Len(tk.jobStatuses)
       \/ tk.jobIdx > 1 /\ tk.jobStatuses[tk.jobIdx - 1].error # NoError
    THEN {[tk |-> [tk EXCEPT !.pc = "done"], st |-> st]}
    ELSE UNION {IF o.tk.pc = "job"
                THEN ProcessBlockStopsAtError([o.tk EXCEPT !.jobIdx = @ + 1], o.st)
                ELSE {o} :
                    o \in ProcessJobStatus([tk EXCEPT !.pc = "job",
                                                      !.jobInfo = NoInfo], st)}

\* processBlock's loop `for (const jobStatus of jobStatuses)` from
\* jobStatuses[tk.jobIdx] on: the outcomes, suspended in a job (pc "alert" or
\* "work") or past the last job (pc "done").
RECURSIVE ProcessBlock(_, _)
ProcessBlock(tk, st) ==
    IF tk.jobIdx > Len(tk.jobStatuses)
    THEN {[tk |-> [tk EXCEPT !.pc = "done"], st |-> st]}
    ELSE UNION {IF o.tk.pc = "job"
                THEN ProcessBlock([o.tk EXCEPT !.jobIdx = @ + 1], o.st)
                ELSE {o} :
                    o \in ProcessJobStatus([tk EXCEPT !.pc = "job",
                                                      !.jobInfo = NoInfo], st)}

\* A skipped block leaves successfullyProcessed at the last block that succeeded.
SuccessfullyProcessedNoSkip(tk, skippedBlock) ==
    IF skippedBlock THEN tk.successfullyProcessed ELSE tk.blockNum

\* successfullyProcessed = blockNum, in the try and in the catch of the loop
\* body: a block counts as processed whether it succeeded or was skipped.
SuccessfullyProcessed(tk, skippedBlock) == tk.blockNum

\* The for loop of monitoringLoop after processBlockWithRetry(blockNum) has
\* returned or thrown: successfullyProcessed = blockNum, then the next block's
\* check is issued, or this.lastProcessedBlock = successfullyProcessed and the
\* tick ends.
BlockDone(t, tk, skippedBlock) ==
    LET done == [tk EXCEPT !.successfullyProcessed =
                                SuccessfullyProcessed(tk, skippedBlock)]
    IN  IF done.blockNum + 1 <= done.endBlock
        THEN /\ tick' = [tick EXCEPT ![t] =
                    [done EXCEPT !.blockNum = @ + 1, !.attempt = 0, !.delay = 0,
                                 !.pc = "check", !.jobStatuses = <<>>,
                                 !.jobIdx = 0, !.jobInfo = NoInfo,
                                 !.units = @ + 1]]
             /\ UNCHANGED <<lastProcessedBlock, lastTick>>
        ELSE /\ tick' = [tick EXCEPT ![t] = IdleTick]
             /\ lastProcessedBlock' = done.successfullyProcessed
             /\ lastTick' = [ran |-> TRUE, head |-> done.currentBlock,
                             start |-> done.startBlock,
                             after |-> done.successfullyProcessed,
                             units |-> done.units, skipped |-> done.skipped]

\* Tick t continues with one of the outcomes of processBlock: it stays
\* suspended in a job, or the block is done.
Resume(t, outcomes) ==
    \E o \in outcomes :
        /\ jobs' = o.st.jobs
        /\ run' = o.st.run
        /\ runBlocks' = o.st.runBlocks
        /\ reached' = o.st.reached
        /\ alerts' = o.st.alerts
        /\ faults' = o.st.faults
        /\ IF o.tk.pc = "done"
           THEN BlockDone(t, o.tk, FALSE)
           ELSE /\ tick' = [tick EXCEPT ![t] = o.tk]
                /\ UNCHANGED <<lastProcessedBlock, lastTick>>

\* A test that lets a tick go on when the head equals the cursor.
NoNewBlocksStrict(currentBlock, cursor) == currentBlock < cursor

\* "Skip if no new blocks": currentBlock.number <= this.lastProcessedBlock
NoNewBlocks(currentBlock, cursor) == currentBlock <= cursor

\* A monitoringLoop whose failed head read is thrown to its caller: start()'s
\* catch sets isRunning to false.
GetLatestBlockThrows(t) ==
    /\ tick[t].pc = "getLatest"
    /\ \/ /\ faults < MaxFaults
          /\ faults' = faults + 1
          /\ tick' = [tick EXCEPT ![t] = IdleTick]
          /\ isRunning' = FALSE
       \/ /\ NoNewBlocks(head, lastProcessedBlock)
          /\ tick' = [tick EXCEPT ![t] = IdleTick]
          /\ UNCHANGED <<faults, isRunning>>
       \/ /\ ~NoNewBlocks(head, lastProcessedBlock)
          /\ tick' = [tick EXCEPT ![t] =
                IF config.maxBlocksPerQuery.nan THEN IdleTick ELSE
                [IdleTick EXCEPT
                    !.pc = "check",
                    !.currentBlock = head,
                    !.startBlock = lastProcessedBlock,
                    !.endBlock = lastProcessedBlock
                                 + BlocksToProcess(head, lastProcessedBlock),
                    !.successfullyProcessed = lastProcessedBlock,
                    !.blockNum = lastProcessedBlock + 1,
                    !.units = 1]]
          /\ UNCHANGED <<faults, isRunning>>
    /\ UNCHANGED <<overlaps, initialized, monitoringInterval, dbOpen,
                   lastProcessedBlock, jobAddresses, head, jobs, rateLimits,
                   alerts, run, runBlocks, reached, lastTick>>
    /\ UNCHANGED <<sequencer, startingBlock, timers, forceCheckError, storeVars, configVars>>

\* monitoringLoop resumes from getLatestBlock(): the read fails and the tick
\* ends in the outer catch, or there is no new block, or the window is
\* computed and the first block's check is issued. With a NaN cap endBlock
\* is NaN, `blockNum <= endBlock` is false and the tick ends with the cursor
\* where it was.
GetLatestBlock(t) ==
    /\ tick[t].pc = "getLatest"
    /\ \/ /\ faults < MaxFaults
          /\ faults' = faults + 1
          /\ tick' = [tick EXCEPT ![t] = IdleTick]
       \/ /\ NoNewBlocks(head, lastProcessedBlock)
          /\ tick' = [tick EXCEPT ![t] = IdleTick]
          /\ UNCHANGED faults
       \/ /\ ~NoNewBlocks(head, lastProcessedBlock)
          /\ tick' = [tick EXCEPT ![t] =
                IF config.maxBlocksPerQuery.nan THEN IdleTick ELSE
                [IdleTick EXCEPT
                    !.pc = "check",
                    !.currentBlock = head,
                    !.startBlock = lastProcessedBlock,
                    !.endBlock = lastProcessedBlock
                                 + BlocksToProcess(head, lastProcessedBlock),
                    !.successfullyProcessed = lastProcessedBlock,
                    !.blockNum = lastProcessedBlock + 1,
                    !.units = 1]]
          /\ UNCHANGED faults
    /\ UNCHANGED <<overlaps, initialized, isRunning, monitoringInterval, dbOpen,
                   lastProcessedBlock, jobAddresses, head, jobs, rateLimits,
                   alerts, run, runBlocks, reached, lastTick>>
    /\ UNCHANGED <<sequencer, startingBlock, timers, forceCheckError, storeVars, configVars>>

\* A backoff that starts at 3^attempt seconds.
DelayNoOffset(attempt) == 3^attempt * 1000

\* const delay = Math.pow(3, attempt + 4) * 1000, in milliseconds.
Delay(attempt) == 3^(attempt + 4) * 1000

\* The catch of processBlockWithRetry for an error thrown by processBlock: a
\* rate-limited attempt starts the backoff wait of Delay(attempt) ms (the
\* tick keeps the delay of its last wait until the block is done); any other
\* error is thrown at once, and monitoringLoop's catch skips the block.
ProcessBlockThrows(t, errorMsg) ==
    IF IsRateLimited(errorMsg)
    THEN /\ tick' = [tick EXCEPT ![t].pc = "backoff",
                                 ![t].delay = Delay(tick[t].attempt)]
         /\ UNCHANGED <<lastProcessedBlock, lastTick>>
    ELSE BlockDone(t, [tick[t] EXCEPT !.skipped = @ + 1], TRUE)

\* processBlock resumes from checkMultipleJobsWorkable(): every workable()
\* call has settled.  The first rate-limiting error is re-thrown through
\* processBlock to processBlockWithRetry, which starts its backoff wait (or
\* throws at once an error that is not rate limiting, which monitoringLoop
\* catches by skipping the block); else the results are processed in order.
CheckMultipleJobsWorkable(t) ==
    /\ tick[t].pc = "check"
    /\ \E calls \in [1..Len(jobAddresses) -> WorkableCalls] :
        LET results == [i \in 1..Len(jobAddresses) |->
                            CheckJobWorkable(jobAddresses[i], calls[i])]
            rateLimitingErrors == RateLimitingErrors(results)
            limited == \E i \in 1..Len(jobAddresses) :
                            IsRateLimitingError(calls[i].message)
            firstError ==
                results[CHOOSE i \in rateLimitingErrors :
                            \A k \in rateLimitingErrors : i <= k]
        IN  /\ IF limited
               THEN rateLimits < MaxRateLimits /\ rateLimits' = rateLimits + 1
               ELSE UNCHANGED rateLimits
            /\ IF rateLimitingErrors # {}
               THEN /\ ProcessBlockThrows(t, firstError.reason)
                    /\ UNCHANGED <<jobs, faults, alerts, run, runBlocks, reached>>
               ELSE Resume(t, ProcessBlock(
                        [tick[t] EXCEPT !.jobStatuses = JobStatuses(results),
                                        !.jobIdx = 1],
                        Store))
    /\ UNCHANGED <<overlaps, initialized, isRunning, monitoringInterval, dbOpen,
                   jobAddresses, head>>
    /\ UNCHANGED <<sequencer, startingBlock, timers, forceCheckError, storeVars, configVars>>

\* processBlockWithRetry resumes from `await this.processBlock(blockNumber)`
\* with processBlock taken as any function that returns, having written
\* nothing, or throws an error with one of the messages.
ProcessBlockSettles(t) ==
    /\ tick[t].pc = "check"
    /\ \E outcome \in {<<>>} \cup {<<m>> : m \in ErrorMessages} :
        /\ probe' = [op |-> "processBlock", address |-> "", result |-> outcome]
        /\ IF outcome = <<>>
           THEN BlockDone(t, tick[t], FALSE) /\ UNCHANGED rateLimits
           ELSE /\ IF IsRateLimitingError(outcome[1])
                   THEN rateLimits < MaxRateLimits /\ rateLimits' = rateLimits + 1
                   ELSE UNCHANGED rateLimits
                /\ ProcessBlockThrows(t, outcome[1])
    /\ UNCHANGED <<overlaps, initialized, isRunning, monitoringInterval, dbOpen,
                   jobAddresses, head, jobs, faults, alerts, run, runBlocks,
                   reached, sequencer, startingBlock, timers, forceCheckError, written, configVars>>

\* A loop test that lets one attempt too many through.
MoreAttemptsOneTooMany(attempt) == attempt < retries

\* `for (let attempt = 0; attempt < retries; attempt++)`: whether another
\* attempt follows the one numbered attempt.
MoreAttempts(attempt) == attempt + 1 < retries

\* processBlockWithRetry resumes from the backoff wait: the next attempt, or
\* after the last attempt the exhaustion error, which monitoringLoop catches
\* by skipping the block.
Backoff(t) ==
    /\ tick[t].pc = "backoff"
    /\ IF MoreAttempts(tick[t].attempt)
       THEN /\ tick' = [tick EXCEPT ![t].attempt = @ + 1, ![t].pc = "check"]
            /\ UNCHANGED <<lastProcessedBlock, lastTick>>
       ELSE BlockDone(t, [tick[t] EXCEPT !.skipped = @ + 1], TRUE)
    /\ UNCHANGED <<overlaps, initialized, isRunning, monitoringInterval, dbOpen,
                   jobAddresses, head, jobs, rateLimits, faults, alerts,
                   run, runBlocks, reached>>
    /\ UNCHANGED <<sequencer, startingBlock, timers, forceCheckError, storeVars, configVars>>

\* processJobStatus resumes from sendAlert(), delivered or not (sendAlert
\* catches and discord.sendAlert returns false): alertsSent++, lastAlertBlock,
\* the row is written, and processBlock goes on with the next job.
SendAlert(t) ==
    /\ tick[t].pc = "alert"
    /\ Resume(t, UNION {
            ProcessBlock([tick[t] EXCEPT !.jobIdx = @ + 1], s) :
                s \in SaveJob(Store, Alerted(tick[t].jobInfo, tick[t].blockNum),
                              TRUE, tick[t].blockNum)})
    /\ UNCHANGED <<overlaps, initialized, isRunning, monitoringInterval, dbOpen,
                   jobAddresses, head, rateLimits>>
    /\ UNCHANGED <<sequencer, startingBlock, timers, forceCheckError, storeVars, configVars>>

\* processJobStatus after `const wasWorked = await
\* this.ethereum.checkWorkTransactionInBlock(...)` has returned wasWorked.
WasWorked(t, wasWorked) ==
    Resume(t, UNION {
        ProcessBlock([tick[t] EXCEPT !.jobIdx = @ + 1], s) :
            s \in SaveJob(Store,
                          Reset(tick[t].jobInfo, wasWorked, tick[t].blockNum),
                          FALSE, tick[t].blockNum)})

\* processJobStatus resumes from checkWorkTransactionInBlock(), which found
\* the work transaction or not (or failed and returned false): lastWorkedBlock,
\* the counter reset, the row is written, and processBlock goes on with the
\* next job.
CheckWorkTransactionInBlock(t) ==
    /\ tick[t].pc = "work"
    /\ \E wasWorked \in BOOLEAN : WasWorked(t, wasWorked)
    /\ UNCHANGED <<overlaps, initialized, isRunning, monitoringInterval, dbOpen,
                   jobAddresses, head, rateLimits>>
    /\ UNCHANGED <<sequencer, startingBlock, timers, forceCheckError, storeVars, configVars>>

\* One step of an execution of monitoringLoop.
TickStep(t) ==
    \/ GetLatestBlock(t)
    \/ CheckMultipleJobsWorkable(t)
    \/ Backoff(t)
    \/ SendAlert(t)
    \/ CheckWorkTransactionInBlock(t)

Next ==
    \/ NewBlock
    \/ Initialize
    \/ Start
    \/ TimerFire
    \/ ForceCheck
    \/ Stop
    \/ \E t \in Ticks : TickStep(t)

Spec == Init /\ [][Next]_vars

\* The runs in which the timer interval is longer than every tick and nothing
\* else starts a tick while one is running: ticks run one at a time.
NextAlone ==
    \/ NewBlock
    \/ Initialize
    \/ InFlight = {} /\ Start
    \/ InFlight = {} /\ TimerFire
    \/ InFlight = {} /\ ForceCheck
    \/ Stop
    \/ \E t \in Ticks : TickStep(t)

SpecAlone == Init /\ [][NextAlone]_vars

\* The runs of SpecAlone in which the process also exits (or crashes) and is
\* started again: Initialize after ProcessExit is the new process's
\* initialize().
NextRestart ==
    \/ NextAlone
    \/ ProcessExit

SpecRestart == Init /\ [][NextRestart]_vars

\* The SQLiteDatabase used on its own: any sequence of direct calls of its
\* methods on an open database.
NextStore ==
    \/ OpenDatabase
    \/ CallUpsertJob
    \/ CallDeleteJob
    \/ CallGetJob
    \/ CallGetAllJobs

SpecStore == Init /\ [][NextStore]_vars

\* The process from the load of utils/config on, ticks one at a time.
NextConfig ==
    \/ LoadConfigModule
    \/ NextAlone

SpecConfig == InitConfig /\ [][NextConfig]_vars

\* The service left running, ticks one at a time: it is initialized and
\* started, never stopped, the timer keeps firing and every await of a tick
\* settles.
NextLive ==
    \/ NewBlock
    \/ Initialize
    \/ InFlight = {} /\ Start
    \/ InFlight = {} /\ TimerFire
    \/ \E t \in Ticks : TickStep(t)

Fairness ==
    /\ WF_vars(Initialize)
    /\ WF_vars(InFlight = {} /\ Start)
    /\ WF_vars(InFlight = {} /\ TimerFire)
    /\ \A t \in Ticks : WF_vars(TickStep(t))

SpecLive == Init /\ [][NextLive]_vars /\ Fairness

\* processBlockWithRetry under any behaviour of processBlock, in ticks that
\* run one at a time.
NextRetry ==
    \/ NewBlock
    \/ Initialize
    \/ InFlight = {} /\ Start
    \/ InFlight = {} /\ TimerFire
    \/ \E t \in Ticks : GetLatestBlock(t)
    \/ \E t \in Ticks : ProcessBlockSettles(t)
    \/ \E t \in Ticks : Backoff(t)

SpecRetry == Init /\ [][NextRetry]_vars

\* The runs of SpecAlone with a webhook that delivers or one that does not.
SpecSink == InitSink /\ [][NextAlone]_vars

\* The runs of SpecAlone with two jobs listed by the Sequencer.
SpecTwo == InitTwo /\ [][NextAlone]_vars

\* The runs of SpecAlone in which rows of the jobs table are also deleted
\* (deleteJob) while the service runs, so that a tick meets a job with no row.
NextLazy ==
    \/ NextAlone
    \/ CallDeleteJob

SpecLazy == Init /\ [][NextLazy]_vars


\* ------------------------------------------------------------------ claims
\* The alerts sent for an address at a block.
AlertsAt(address, block) ==
    {i \in 1..Len(alerts) : alerts[i].address = address /\ alerts[i].block = block}

\* C1: at most one tick (execution of monitoringLoop) is in flight at any
\* time; a timer fire that arrives while a tick is running starts no second
\* tick.
C1_AtMostOneTickInFlight == Cardinality(InFlight) <= 1

\* C2: lastProcessedBlock is non-decreasing: no step writes a cursor value
\* lower than the value it replaces.
C2_CursorNonDecreasing == [][lastProcessedBlock' >= lastProcessedBlock]_vars

\* C3: any two alerts sent for the same entity are for units at least
\* alertThresholdBlocks apart.
C3_AlertsThresholdApart ==
    \A i, k \in 1..Len(alerts) :
        (i < k /\ alerts[i].address = alerts[k].address)
            => \/ alerts[k].block - alerts[i].block >= alertThresholdBlocks
               \/ alerts[i].block - alerts[k].block >= alertThresholdBlocks

\* C4: after each observation written by processJobStatus, the entity's
\* consecutiveWorkableBlocks equals the length of the trailing run of workable
\* observations (1 on false->true, +1 on true->true, 0 on false).
C4_CounterIsTrailingRun ==
    \A a \in DOMAIN jobs : jobs[a].consecutive_workable_blocks = run[a]

\* C4 witness: a run was broken (the work was confirmed at the break) and the
\* next workable observation restarted the counter at 1.
C4_Witness ==
    \E a \in DOMAIN jobs :
        /\ run[a] = 1
        /\ jobs[a].consecutive_workable_blocks = 1
        /\ jobs[a].last_worked_block # Null

\* C5: an entity whose counter reaches the threshold at unit U has exactly one
\* alert sent at unit U.
C5_ExactlyOneAlertAtThreshold ==
    \A p \in reached : Cardinality(AlertsAt(p[1], p[2])) = 1

\* C6: an alert is sent for an entity at a unit only if its counter, after
\* that unit's observation, is at least alertThresholdBlocks.
C6_AlertOnlyAtThreshold ==
    \A i \in 1..Len(alerts) : alerts[i].count >= alertThresholdBlocks

\* C6 witness: an alert has been sent with the counter at the threshold.
C6_Witness ==
    \E i \in 1..Len(alerts) : alerts[i].count = alertThresholdBlocks

\* C7: a run of consecutive eligible units shorter than the threshold never
\* produces an alert: every alert ends a run of at least alertThresholdBlocks
\* distinct units.
C7_NoAlertFromShortRun ==
    \A i \in 1..Len(alerts) : alerts[i].runUnits >= alertThresholdBlocks

\* C8: one tick processes at most maxBlocksPerQuery units, whatever the gap
\* between the chain head and the cursor.
C8_WindowNeverExceeded ==
    /\ \A t \in Ticks : tick[t].units <= maxBlocksPerQuery
    /\ lastTick.units <= maxBlocksPerQuery

\* C8 witness: a tick that started with a gap larger than the cap has
\* completed after exactly maxBlocksPerQuery units.
C8_Witness ==
    /\ lastTick.ran
    /\ lastTick.head - lastTick.start > maxBlocksPerQuery
    /\ lastTick.units = maxBlocksPerQuery

\* C9 as stated: a tick run alone advances the cursor by min(G, C) minus the
\* number of units it skipped.
C9_AdvanceMinusSkipped ==
    lastTick.ran =>
        lastTick.after - lastTick.start
            = Min(lastTick.head - lastTick.start, maxBlocksPerQuery)
              - lastTick.skipped

\* C9 amended: a tick run alone advances the cursor by exactly min(G, C);
\* the units it skipped are part of the advance.
C9_AdvanceIsWindow ==
    lastTick.ran =>
        lastTick.after - lastTick.start
            = Min(lastTick.head - lastTick.start, maxBlocksPerQuery)

\* C9 witness: a tick that skipped a unit has completed.
C9_Witness == lastTick.ran /\ lastTick.skipped >= 1

\* C10: after a tick, lastProcessedBlock does not exceed the chain head the
\* tick observed at its start.
C10_CursorAtMostObservedHead == lastTick.ran => lastTick.after <= lastTick.head

\* C10 witness: a tick has completed with the cursor at the head it observed.
C10_Witness ==
    /\ lastTick.ran
    /\ lastTick.after = lastTick.head
    /\ lastProcessedBlock = lastTick.after

\* C11: when a unit's batch check exhausts its retries and the unit is
\* skipped, no failed attempt and not the skip itself changes any persisted
\* record, and the unit counts as processed: the tick goes on past it, or ends
\* with the cursor at or past it.
C11_SkipAdvancesAndWritesNothing ==
    [][\A t \in Ticks :
        /\ (tick[t].pc = "check" /\ tick'[t].pc = "backoff") => jobs' = jobs
        /\ (/\ tick[t].pc = "backoff"
            /\ ~MoreAttempts(tick[t].attempt)
            /\ tick'[t] # tick[t]
            /\ initialized')
           => /\ jobs' = jobs
              /\ IF tick'[t].pc = "idle"
                 THEN lastProcessedBlock' >= tick[t].blockNum
                 ELSE /\ tick'[t].successfullyProcessed = tick[t].blockNum
                      /\ tick'[t].blockNum = tick[t].blockNum + 1]_vars

\* C11 witness: a tick has skipped a unit and gone on to the next one.
C11_Witness ==
    \E t \in Ticks :
        /\ tick[t].skipped >= 1
        /\ tick[t].pc = "check"
        /\ tick[t].successfullyProcessed = tick[t].blockNum - 1
        /\ tick[t].units = 2

\* C12: stopping or crashing the process and restarting it yields the same
\* counters as an uninterrupted run over the same observations.  The counter
\* of an uninterrupted run is the number of consecutive units, up to the last
\* one checked, that were observed workable: so, apart from skipped units and
\* failed reads and writes, the units of the run that a counter counts are
\* consecutive and end at lastCheckedBlock.
C12_RestartSameCounters ==
    (faults = 0 /\ rateLimits < retries) =>
        \A a \in DOMAIN jobs :
            LET counter == jobs[a].consecutive_workable_blocks
                last == jobs[a].last_checked_block
            IN  counter > 0 => runBlocks[a] = (last - counter + 1)..last

\* C13: forceCheck is rejected with an error only if initialize() has not
\* completed; once it has, forceCheck runs a tick.
C13_ForceCheckRejectedOnlyBeforeInit ==
    [][(~forceCheckError /\ forceCheckError') => ~initialized]_vars

\* C14: stop() does not close the database while a tick is processing a
\* unit: the step that closes it finds no tick between the start of a unit's
\* check and the end of that unit's writes.
C14_NoCloseDuringUnit ==
    [][(dbOpen /\ ~dbOpen') =>
            \A t \in Ticks : tick[t].pc \in {"idle", "getLatest"}]_vars

\* C15: processBlockWithRetry makes at most `retries` (3) attempts for a unit
\* in a tick (attempts are numbered from 0), and when the last of them has
\* failed with a rate-limit error the unit ends with the exhaustion error
\* (the tick counts it as skipped): no further attempt follows.
C15_AtMostThreeAttempts ==
    [][\A t \in Ticks :
        /\ tick'[t].attempt < retries
        /\ (/\ tick[t].pc = "backoff"
            /\ tick[t].attempt = retries - 1
            /\ tick'[t] # tick[t]
            /\ initialized')
           => \/ /\ tick'[t].pc = "idle"
                 /\ lastTick'.skipped = tick[t].skipped + 1
              \/ /\ tick'[t].blockNum = tick[t].blockNum + 1
                 /\ tick'[t].attempt = 0
                 /\ tick'[t].skipped = tick[t].skipped + 1]_vars

\* C15 witness: the third attempt for a unit has failed and the tick is in
\* the backoff wait that precedes the exhaustion error.
C15_Witness ==
    \E t \in Ticks :
        /\ tick[t].pc = "backoff"
        /\ tick[t].attempt = retries - 1
        /\ rateLimits = retries

\* C16: a write failure (upsertJob throwing) during a tick aborts the tick:
\* the step in which the write fails ends the tick, with no later entity or
\* unit processed and the unit not counted as processed, so that the next
\* tick starts again from it.
C16_WriteFailureAbortsTick ==
    [][\A t \in Ticks :
        (/\ tick[t].pc \in {"check", "alert", "work"}
         /\ tick'[t] # tick[t]
         /\ faults' = faults + 1)
        => /\ tick'[t].pc = "idle"
           /\ lastProcessedBlock' < tick[t].blockNum]_vars

\* C17: a write failure for one entity does not prevent the records of the
\* other entities of the same unit from being persisted: when a step of a
\* tick ends a unit and one write failed in it, every other entity the step
\* processed (all of them from a check, those from the resumed one on
\* otherwise) has its record written for that unit.
C17_OtherRecordsPersisted ==
    [][\A t \in Ticks :
        (/\ tick[t].pc \in {"check", "alert", "work"}
         /\ tick'[t] # tick[t]
         /\ tick'[t].pc \in {"check", "idle"}
         /\ faults' = faults + 1
         /\ dbOpen /\ dbOpen')
        => LET first == IF tick[t].pc = "check" THEN 1 ELSE tick[t].jobIdx
               persisted ==
                   {i \in first..Len(jobAddresses) :
                       jobs'[jobAddresses[i]].last_checked_block = tick[t].blockNum}
           IN  Cardinality(persisted) >= Len(jobAddresses) - first]_vars

\* C17 witness: the write of the first entity's record failed at a unit and
\* the second entity's record was persisted for that unit.
C17_Witness ==
    /\ dbOpen
    /\ Len(jobAddresses) = 2
    /\ faults = 1
    /\ jobs[jobAddresses[1]].last_checked_block
            < jobs[jobAddresses[2]].last_checked_block

\* C18: upsertJob(j) followed by getJob(j.address) returns a record equal to
\* j in every field, for every JobInfo j.
C18_GetReturnsWhatWasUpserted ==
    (probe.op = "getJob" /\ probe.address \in DOMAIN written)
        => probe.result = <<written[probe.address].jobInfo>>

\* C19: the store holds one record per address upserted and not since
\* deleted, the one last upserted; getAllJobs returns exactly one entry for
\* each of them; getJob of an address with no record returns null.
C19_OneRecordPerAddress ==
    /\ DOMAIN jobs = DOMAIN written
    /\ \A a \in DOMAIN written : jobs[a] = ToRow(written[a].jobInfo)
    /\ (probe.op = "getJob" /\ probe.address \notin DOMAIN written)
            => probe.result = <<>>
    /\ probe.op = "getAllJobs"
            => /\ Len(probe.result) = Cardinality(DOMAIN written)
               /\ \A a \in DOMAIN written :
                    Cardinality({i \in 1..Len(probe.result) :
                                    probe.result[i].address = a}) = 1

\* C19 witness: an address has been upserted more than once, the other
\* address has no record, and getAllJobs has returned the single entry.
C19_Witness ==
    /\ probe.op = "getAllJobs"
    /\ Len(probe.result) = 1
    /\ \E a \in DOMAIN written : written[a].upserts = 2

\* C20: validateConfig rejects every configuration whose alertThresholdBlocks
\* is <= 0, whose checkIntervalSeconds is <= 0 or whose maxBlocksPerQuery is
\* outside 1..1000, and no tick runs with such values.
C20_NoTickWithRejectedValues ==
    (config.status = "loaded" \/ InFlight # {})
        => /\ ~Lte(config.alertThresholdBlocks, 0)
           /\ ~Lte(config.checkIntervalSeconds, 0)
           /\ ~config.maxBlocksPerQuery.nan
           /\ config.maxBlocksPerQuery.n \in 1..1000

\* The ticks suspended inside the processing of a unit.
InUnit(tk) == tk.pc \notin {"idle", "getLatest"}

\* C21: within one tick the units are processed in increasing order from
\* cursor+1 to cursor+window, each once; unit n+1 starts only when unit n has
\* completed (processed or skipped), and the cursor is only ever set to the
\* unit the tick completed last.
C21_UnitsInOrder ==
    [][\A t \in Ticks :
        /\ InUnit(tick'[t]) =>
            /\ tick'[t].blockNum \in (tick'[t].startBlock + 1)..tick'[t].endBlock
            /\ tick'[t].successfullyProcessed = tick'[t].blockNum - 1
            /\ tick'[t].units = tick'[t].blockNum - tick'[t].startBlock
        /\ (InUnit(tick[t]) /\ InUnit(tick'[t])) =>
            /\ tick'[t].startBlock = tick[t].startBlock
            /\ tick'[t].endBlock = tick[t].endBlock
            /\ tick'[t].blockNum \in {tick[t].blockNum, tick[t].blockNum + 1}
            /\ tick'[t].blockNum = tick[t].blockNum + 1
                    => tick'[t].pc = "check" /\ tick'[t].attempt = 0
        /\ (InUnit(tick[t]) /\ tick'[t].pc = "idle") =>
            /\ tick[t].blockNum = tick[t].endBlock
            /\ lastProcessedBlock' = tick[t].blockNum
        /\ (initialized /\ lastProcessedBlock' # lastProcessedBlock) =>
            \E u \in Ticks : InUnit(tick[u]) /\ tick'[u].pc = "idle"
    ]_vars

\* C21 witness: a tick has completed its first unit and is suspended in the
\* check of its second.
C21_Witness ==
    \E t \in Ticks :
        /\ tick[t].pc = "check"
        /\ tick[t].blockNum = tick[t].startBlock + 2
        /\ tick[t].successfullyProcessed = tick[t].startBlock + 1

\* C22: a processBlock attempt that fails has written no job record: when the
\* provider rejects a job's check with a rate-limiting error, the attempt
\* changes no record and the same unit is retried after the backoff wait.
C22_FailedAttemptWritesNothing ==
    [][\A t \in Ticks :
        (tick[t].pc = "check" /\ tick'[t] # tick[t] /\ rateLimits' # rateLimits)
            => /\ jobs' = jobs
               /\ alerts' = alerts
               /\ tick'[t].pc = "backoff"
               /\ tick'[t].blockNum = tick[t].blockNum
    ]_vars

\* C22 witness: with two jobs tracked, an attempt has failed and the unit is
\* in its backoff wait.
C22_Witness ==
    /\ Len(jobAddresses) = 2
    /\ \E t \in Ticks : tick[t].pc = "backoff"

\* C23: a check failure whose message processBlockWithRetry classifies as
\* retryable is never recorded as the error result of a job.
C23_RetryableNeverAnErrorResult ==
    \A t \in Ticks : \A i \in DOMAIN tick[t].jobStatuses :
        ~IsRateLimited(tick[t].jobStatuses[i].error)

\* C24: when an alert fires at unit U and the sink fails to deliver it, the
\* job's record still gets alertsSent increased by 1 and lastAlertBlock U, so
\* that the alert is not attempted again inside the suppression window.
C24_FailedAlertStillCounted ==
    [][\A t \in Ticks :
        (tick[t].pc = "alert" /\ tick'[t] # tick[t] /\ webhookDown)
            => LET a == tick[t].jobInfo.address
               IN  /\ jobs'[a].alerts_sent = jobs[a].alerts_sent + 1
                   /\ jobs'[a].last_alert_block = tick[t].blockNum
    ]_vars

\* C25: the persisted alertsSent of a job never decreases, in any run and
\* under any interleaving of ticks.
C25_AlertsSentNeverDecreases ==
    [][\A a \in DOMAIN jobs :
        /\ a \in DOMAIN jobs'
        /\ jobs'[a].alerts_sent >= jobs[a].alerts_sent
    ]_vars

\* C26: once the head stops advancing the cursor eventually equals it, and a
\* tick that starts with backlog resumes at the unit right after the last
\* unit of the tick that completed before it.
C26_EventualCatchUp ==
    /\ (lastProcessedBlock < head) ~> (lastProcessedBlock = head)
    /\ [][\A t \in Ticks :
            (tick[t].pc = "getLatest" /\ InUnit(tick'[t]) /\ lastTick.ran)
                => tick'[t].blockNum = lastTick.start + lastTick.units + 1
       ]_vars

\* C26 witness: a tick that ended with backlog (the window cap below the
\* gap) has been followed by a tick that reached the head.
C26_Witness ==
    /\ lastTick.ran
    /\ lastTick.head - lastTick.start > lastTick.units
    /\ \E t \in Ticks :
        /\ InUnit(tick[t])
        /\ tick[t].startBlock = lastTick.start + lastTick.units
        /\ tick[t].endBlock = head

\* The row of the job's record says what processJobStatus computes from the
\* job's own result at the block.
RecordedAt(row, jobStatus, blockNumber) ==
    /\ row.last_checked_block = blockNumber
    /\ row.is_currently_workable = (IF IsWorkable(jobStatus) THEN 1 ELSE 0)
    /\ ~IsWorkable(jobStatus) => row.consecutive_workable_blocks = 0

\* C27: a check failure that is not retryable is an error result of its own
\* job only: the unit is neither retried nor skipped, the failing job is
\* recorded as not workable and every other job of the unit is recorded
\* according to its own result.  Stated for a tick suspended inside a unit
\* one of whose results carries an error, and for the step in which the job
\* with the error result is written.
C27_ErrorResultForThatJobOnly ==
    /\ [](\A t \in Ticks :
            (tick[t].pc \in {"alert", "work"} /\ dbOpen /\ faults = 0
                /\ \E k \in DOMAIN tick[t].jobStatuses :
                        tick[t].jobStatuses[k].error # NoError)
            => \A i \in 1..(tick[t].jobIdx - 1) :
                    RecordedAt(jobs[jobAddresses[i]], tick[t].jobStatuses[i],
                               tick[t].blockNum))
    /\ [][\A t \in Ticks :
            (tick[t].pc = "work" /\ tick'[t] # tick[t] /\ dbOpen
                /\ faults = 0 /\ faults' = 0
                /\ tick[t].jobStatuses[tick[t].jobIdx].error # NoError)
            => /\ tick'[t].pc # "backoff"
               /\ tick'[t].pc # "idle" => tick'[t].skipped = tick[t].skipped
               /\ tick'[t].pc = "idle" => lastTick'.skipped = tick[t].skipped
               /\ \A i \in 1..Len(jobAddresses) :
                    (tick'[t].blockNum = tick[t].blockNum => i < tick'[t].jobIdx)
                        => RecordedAt(jobs'[jobAddresses[i]],
                                      tick[t].jobStatuses[i], tick[t].blockNum)
       ]_vars

\* C27 witness: with two jobs, the first job's result carried an error, its
\* record was written, and the tick is suspended in the alert of the second.
C27_Witness ==
    \E t \in Ticks :
        /\ tick[t].pc = "alert"
        /\ tick[t].jobIdx = 2
        /\ tick[t].jobStatuses[1].error # NoError
        /\ jobs[jobAddresses[1]].last_checked_block = tick[t].blockNum

\* C28: a job whose check result carries an error is treated as not workable
\* at that unit: no alert is sent for it, and its record gets counter 0 and
\* isCurrentlyWorkable false.
C28_ErrorMeansNotWorkable ==
    /\ [](\A t \in Ticks :
            tick[t].pc = "alert"
                => tick[t].jobStatuses[tick[t].jobIdx].error = NoError)
    /\ [][\A t \in Ticks :
            (tick[t].pc = "work" /\ tick'[t] # tick[t] /\ dbOpen
                /\ faults' = faults
                /\ tick[t].jobStatuses[tick[t].jobIdx].error # NoError)
            => LET a == jobAddresses[tick[t].jobIdx]
               IN  /\ jobs'[a].consecutive_workable_blocks = 0
                   /\ jobs'[a].is_currently_workable = 0
                   /\ jobs'[a].last_checked_block = tick[t].blockNum
                   /\ \A k \in (Len(alerts) + 1)..Len(alerts') :
                            alerts'[k].address # a
       ]_vars

\* C28 witness: the first job was workable, its result at this unit carried
\* an error and its record now has counter 0; the tick is suspended in the
\* second job of the unit.
C28_Witness ==
    \E t \in Ticks :
        /\ tick[t].pc \in {"alert", "work"}
        /\ tick[t].jobIdx = 2
        /\ tick[t].jobStatuses[1].error # NoError
        /\ jobs[jobAddresses[1]].last_worked_block = tick[t].blockNum
        /\ jobs[jobAddresses[1]].consecutive_workable_blocks = 0
        /\ jobs[jobAddresses[1]].is_currently_workable = 0

\* C29: a tick that reads a head <= lastProcessedBlock returns at once: it
\* issues no check, writes no record, sends no alert and leaves the cursor.
C29_NoNewBlockNoEffect ==
    [][\A t \in Ticks :
        (tick[t].pc = "getLatest" /\ tick'[t] # tick[t]
            /\ head <= lastProcessedBlock)
        => /\ tick'[t].pc = "idle"
           /\ UNCHANGED <<jobs, alerts, lastProcessedBlock, rateLimits, lastTick>>
    ]_vars

\* C29 witness: the tick before caught up with the head, no block has come
\* since, and the next tick has read the head.
C29_Witness ==
    /\ lastTick.ran
    /\ lastTick.after = head
    /\ lastProcessedBlock = head
    /\ \E t \in Ticks : tick[t].pc = "getLatest"
    /\ \A t \in Ticks : tick[t].pc \in {"idle", "getLatest"}

\* C30: when processing a unit fails with an error that matches no retryable
\* signature, processBlockWithRetry throws at once: no backoff wait and no
\* further attempt for that unit, which the tick skips.
C30_FatalRaisedImmediately ==
    [][\A t \in Ticks :
        (tick[t].pc = "check" /\ tick'[t] # tick[t]
            /\ probe'.op = "processBlock" /\ probe'.result # <<>>
            /\ \A signature \in {"rate limit", "too many requests", "429", "-32005"} :
                    ~Includes(probe'.result[1], signature))
        => /\ tick'[t].pc \in {"check", "idle"}
           /\ tick'[t].pc = "check"
                => /\ tick'[t].blockNum = tick[t].blockNum + 1
                   /\ tick'[t].attempt = 0
                   /\ tick'[t].skipped = tick[t].skipped + 1
           /\ tick'[t].pc = "idle"
                => /\ lastTick'.skipped = tick[t].skipped + 1
                   /\ lastProcessedBlock' = tick[t].blockNum
    ]_vars

\* C30 witness: the first attempt of a unit failed with "execution reverted"
\* and the tick is at the first attempt of the next unit.
C30_Witness ==
    /\ probe = [op |-> "processBlock", address |-> "",
                result |-> <<"execution reverted">>]
    /\ \E t \in Ticks :
        /\ tick[t].pc = "check"
        /\ tick[t].attempt = 0
        /\ tick[t].skipped = 1
        /\ tick[t].blockNum = tick[t].startBlock + 2

\* C31: once stop() has run (the service is not running) the interval timer
\* is cleared, no step other than a new start() takes a tick out of idle, and
\* forceCheck() is rejected without starting a tick.
C31_NoTickAfterStop ==
    /\ [](~isRunning => ~monitoringInterval)
    /\ [][(~isRunning /\ ~isRunning')
            => \A t \in Ticks : tick[t].pc = "idle" => tick'[t].pc = "idle"]_vars
    /\ [][(~isRunning /\ ForceCheck)
            => (forceCheckError' /\ UNCHANGED tick)]_vars

\* stop() has run after a completed tick and a forceCheck() was rejected.
C31_Witness ==
    /\ initialized
    /\ ~isRunning
    /\ ~dbOpen
    /\ ~monitoringInterval
    /\ lastTick.ran
    /\ forceCheckError

\* C32: checkWorkTransactionInBlock is issued for a job only when its stored
\* record says workable and its result at the unit is not workable; when the
\* query returns, the record written has lastWorkedBlock equal to the unit if
\* the query confirmed and the value it had otherwise, and its counter is 0
\* either way; no other step changes lastWorkedBlock.
C32_WorkQueryOnTransitionOnly ==
    /\ [][\A t \in Ticks :
            (tick'[t].pc = "work"
                /\ (tick[t].pc # "work" \/ tick[t].jobIdx # tick'[t].jobIdx))
            => LET jobStatus == tick'[t].jobStatuses[tick'[t].jobIdx]
               IN  /\ HasJob(jobs, jobStatus.address)
                   /\ GetJob(jobs, jobStatus.address).isCurrentlyWorkable
                   /\ ~IsWorkable(jobStatus)
       ]_vars
    /\ [][\A t \in Ticks : \A wasWorked \in BOOLEAN :
            (tick[t].pc = "work" /\ WasWorked(t, wasWorked) /\ dbOpen
                /\ faults' = faults)
            => LET a == tick[t].jobStatuses[tick[t].jobIdx].address
               IN  /\ jobs'[a].last_worked_block =
                        (IF wasWorked THEN tick[t].blockNum
                         ELSE jobs[a].last_worked_block)
                   /\ jobs'[a].consecutive_workable_blocks = 0
                   /\ jobs'[a].is_currently_workable = 0
       ]_vars
    /\ [][\A a \in DOMAIN jobs :
            jobs'[a].last_worked_block # jobs[a].last_worked_block
            => \E t \in Ticks :
                    /\ tick[t].pc = "work"
                    /\ tick[t].jobStatuses[tick[t].jobIdx].address = a
                    /\ jobs'[a].last_worked_block = tick[t].blockNum
       ]_vars

\* C32 witness: a job that had reached counter 2 was found not workable and
\* the query confirmed the work: its record has lastWorkedBlock at its last
\* checked unit and counter 0.
C32_Witness ==
    \E a \in DOMAIN jobs :
        /\ jobs[a].last_worked_block = jobs[a].last_checked_block
        /\ jobs[a].consecutive_workable_blocks = 0
        /\ jobs[a].is_currently_workable = 0
        /\ \E k \in DOMAIN alerts : alerts[k].address = a

\* C33: initialize() sets the cursor to the head it reads, and every unit a
\* tick checks afterwards is above that head, across exits and restarts of
\* the process and whatever lastCheckedBlock the stored records hold.
C33_NothingAtOrBelowStartupHead ==
    /\ [][(~initialized /\ initialized') => lastProcessedBlock' = head]_vars
    /\ [](\A t \in Ticks :
            tick[t].pc \in {"check", "backoff", "alert", "work"}
                => tick[t].blockNum > startingBlock)

\* C33 witness: a record was last checked by an earlier process at a unit
\* below the head at which the process was started again, and a tick checks
\* the first unit above that head.
C33_Witness ==
    \E t \in Ticks : \E a \in DOMAIN jobs :
        /\ tick[t].pc = "check"
        /\ tick[t].blockNum = startingBlock + 1
        /\ jobs[a].last_checked_block >= 2
        /\ jobs[a].last_checked_block < startingBlock

\* C34: when a unit's results are processed and a job has no row, the row
\* written for it is the default record updated by that one observation:
\* counter 1 and workable if the observation is workable, counter 0 and not
\* workable otherwise, alertsSent 0, no lastAlertBlock, no lastWorkedBlock,
\* lastCheckedBlock the unit.  (rateLimits unchanged: the check did not throw;
\* faults unchanged: the write was applied.)
C34_UnknownJobStartsFromDefault ==
    [][\A t \in Ticks : \A i \in 1..Len(jobAddresses) :
        LET a == jobAddresses[i]
        IN  (tick[t].pc = "check" /\ tick'[t] # tick[t] /\ dbOpen
                /\ faults' = faults /\ rateLimits' = rateLimits
                /\ ~HasJob(jobs, a))
            => /\ HasJob(jobs', a)
               /\ jobs'[a].consecutive_workable_blocks
                    = (IF run'[a] > 0 THEN 1 ELSE 0)
               /\ jobs'[a].is_currently_workable
                    = (IF run'[a] > 0 THEN 1 ELSE 0)
               /\ jobs'[a].alerts_sent = 0
               /\ jobs'[a].last_alert_block = Null
               /\ jobs'[a].last_worked_block = Null
               /\ jobs'[a].last_checked_block = tick[t].blockNum
               /\ jobs'[a].name = NameOrNull(JobName(a))
    ]_vars

\* C34 witness: a job observed workable at two units in a row has counter 1:
\* its row was deleted after the first and created again from the default
\* record at the second.
C34_Witness ==
    \E a \in DOMAIN jobs :
        /\ faults = 0
        /\ rateLimits = 0
        /\ run[a] = 2
        /\ jobs[a].consecutive_workable_blocks = 1
        /\ jobs[a].is_currently_workable = 1
        /\ jobs[a].alerts_sent = 0

\* C35: the wait that follows the failed attempt numbered k = 0, 1, 2 of a
\* unit is 81000, 243000, 729000 ms, and each wait of a unit is longer than
\* the one before it.
C35_BackoffDelays ==
    /\ [](\A t \in Ticks :
            tick[t].pc = "backoff"
                => /\ tick[t].attempt \in 0..2
                   /\ tick[t].delay = <<81000, 243000, 729000>>[tick[t].attempt + 1])
    /\ [][\A t \in Ticks :
            (tick[t].pc = "check" /\ tick'[t].pc = "backoff")
                => tick'[t].delay > tick[t].delay]_vars

\* C35 witness: a tick waits 729000 ms after the third failed attempt.
C35_Witness ==
    \E t \in Ticks :
        /\ tick[t].pc = "backoff"
        /\ tick[t].attempt = 2
        /\ tick[t].delay = 729000

\* C36: no unit is applied twice to a job's record: the workable
\* observations written in a row for a job are observations of as many
\* distinct units.
C36_UnitAppliedAtMostOnce ==
    \A a \in Addresses : run[a] = Cardinality(runBlocks[a])

\* C37: in every row of the jobs table isCurrentlyWorkable is set if and
\* only if the counter is at least 1, and clear if and only if it is 0.
C37_WorkableIffCounterPositive ==
    \A a \in DOMAIN jobs :
        /\ jobs[a].consecutive_workable_blocks >= 0
        /\ jobs[a].is_currently_workable = 1
            <=> jobs[a].consecutive_workable_blocks >= 1
        /\ jobs[a].is_currently_workable = 0
            <=> jobs[a].consecutive_workable_blocks = 0

\* C37 witness: a record that was workable with counter 2 and alerted has
\* been written again as not workable with counter 0.
C37_Witness ==
    \E a \in DOMAIN jobs :
        /\ jobs[a].alerts_sent = 1
        /\ jobs[a].is_currently_workable = 0
        /\ jobs[a].consecutive_workable_blocks = 0
        /\ jobs[a].last_checked_block > jobs[a].last_alert_block

\* C38: a tick counts a unit as skipped only when it resumes from the wait
\* that follows the third rate-limited attempt of the unit's batch check; no
\* step that resumes from the batch check, from an alert or from a work
\* confirmation skips the unit, whether or not a read or a write of a record
\* failed in it.
C38_SkipOnlyAfterThreeRateLimits ==
    [][\A t \in Ticks :
        LET skipsUnit ==
                IF tick'[t].pc = "idle"
                THEN tick[t].pc # "getLatest" /\ lastTick'.skipped > tick[t].skipped
                ELSE tick'[t].skipped > tick[t].skipped
        IN  /\ (tick'[t] # tick[t] /\ skipsUnit)
                => /\ tick[t].pc = "backoff"
                   /\ tick[t].attempt = retries - 1
                   /\ rateLimits >= retries
            /\ (tick'[t] # tick[t] /\ tick[t].pc \in {"check", "alert", "work"})
                => ~skipsUnit
    ]_vars

\* C38 witness: a tick of two units has skipped one of them after three
\* rate-limited attempts, and in the other one the write of the record failed
\* on an open database without the unit being skipped.
C38_Witness ==
    /\ lastTick.ran
    /\ lastTick.units = 2
    /\ lastTick.skipped = 1
    /\ rateLimits = retries
    /\ faults = 1
    /\ dbOpen
    /\ \E a \in DOMAIN jobs : jobs[a].last_checked_block <= lastTick.start

\* C39: when getLatestBlock() fails at the start of a tick, the tick ends
\* there: the cursor, the records, the alerts and the summary of the last
\* completed tick are as before, the error reaches no caller (the service is
\* still running if it was, its timer is still set, no forceCheck error), so
\* that later ticks are started as before.
C39_FailedHeadReadNoEffect ==
    [][\A t \in Ticks :
        (tick[t].pc = "getLatest" /\ tick'[t] # tick[t] /\ faults' = faults + 1)
        => /\ tick'[t].pc = "idle"
           /\ lastProcessedBlock' = lastProcessedBlock
           /\ jobs' = jobs
           /\ alerts' = alerts
           /\ lastTick' = lastTick
           /\ isRunning' = isRunning
           /\ monitoringInterval' = monitoringInterval
           /\ forceCheckError' = forceCheckError
           /\ dbOpen' = dbOpen
    ]_vars

\* C39 witness: no tick has completed, a head read has failed, and a later
\* tick is checking its first unit.
C39_Witness ==
    \E t \in Ticks :
        /\ faults = 1
        /\ ~lastTick.ran
        /\ isRunning
        /\ tick[t].pc = "check"
        /\ tick[t].units = 1
        /\ tick[t].blockNum = lastProcessedBlock + 1

\* C40: whatever start() and stop() calls were made, at most one interval
\* timer is active, and exactly one if and only if the service is running
\* (its handle is then set); while the service stays running no timer is
\* created, and while it stays not running none is created or cleared and the
\* database is not closed.
C40_AtMostOneTimer ==
    /\ [](/\ timers \in {0, 1}
          /\ timers = 1 <=> isRunning
          /\ monitoringInterval <=> isRunning)
    /\ [][(isRunning /\ isRunning')
            => (timers' = timers /\ monitoringInterval' = monitoringInterval)]_vars
    /\ [][(initialized /\ ~isRunning /\ ~isRunning')
            => (timers' = timers /\ dbOpen' = dbOpen
                /\ monitoringInterval' = monitoringInterval)]_vars

\* C40 witness: the service was started, stopped and started again: it runs
\* with one timer on a closed database.
C40_Witness ==
    /\ isRunning
    /\ timers = 1
    /\ monitoringInterval
    /\ ~dbOpen

====
